---- MODULE Spec2Model ----
(***************************************************************************)
(* Model of the mini-VDD call handlers of vmdisp9x (src/minivdd.c).        *)
(*                                                                         *)
(* The Main VDD calls one handler at a time with a pointer to the client   *)
(* register structure CRS_32 (src/vmm.h).  A handler reads and writes the  *)
(* structure, may call the VMM services Enable_Global_Trapping and         *)
(* Disable_Global_Trapping, and returns.  Every handler runs to            *)
(* completion before the next call, so one action is one whole handler.    *)
(*                                                                         *)
(* The model is of the build with SVGA defined: the handlers that consult  *)
(* the adapter are empty otherwise (#ifdef SVGA).                          *)
(***************************************************************************)
EXTENDS Integers, FiniteSets, Sequences, TLC

(***************************************************************************)
(* Function numbers.  src/minivdd.c names each function in its VDDPROC     *)
(* line and gives the number of the documented ones in the comment above   *)
(* it ("GET_CHIP_ID (Function 42)"); the four handlers at the end of the   *)
(* file carry no such comment and have the numbers of the mini-VDD         *)
(* interface (4, 5, 13, 21).                                               *)
(***************************************************************************)
REGISTER_DISPLAY_DRIVER == 0
PRE_HIRES_TO_VGA == 4
POST_HIRES_TO_VGA == 5
ENABLE_TRAPS == 13
DISPLAY_DRIVER_DISABLING == 21
GET_CURRENT_BANK_WRITE == 32
GET_CURRENT_BANK_READ == 33
SET_BANK == 34
GET_TOTAL_VRAM_SIZE == 36
GET_BANK_SIZE == 37
SET_HIRES_MODE == 38
PRE_HIRES_SAVE_RESTORE == 39
POST_HIRES_SAVE_RESTORE == 40
VESA_SUPPORT == 41
GET_CHIP_ID == 42
CHECK_SCREEN_SWITCH_OK == 43
VESA_CALL_POST_PROCESSING == 47

\* The functions that have a handler (a VDDPROC) in src/minivdd.c.
TableOpcodes ==
    { REGISTER_DISPLAY_DRIVER, PRE_HIRES_TO_VGA, POST_HIRES_TO_VGA,
      ENABLE_TRAPS, DISPLAY_DRIVER_DISABLING, GET_CURRENT_BANK_WRITE,
      GET_CURRENT_BANK_READ, SET_BANK, GET_TOTAL_VRAM_SIZE, GET_BANK_SIZE,
      SET_HIRES_MODE, PRE_HIRES_SAVE_RESTORE, POST_HIRES_SAVE_RESTORE,
      VESA_SUPPORT, GET_CHIP_ID, CHECK_SCREEN_SWITCH_OK,
      VESA_CALL_POST_PROCESSING }

\* Opcodes are 0..MaxOpcode; the ones the model dispatches without a handler
\* are the NumUnlisted largest of them and two from the gaps of the table.
MaxOpcode == 255
NumUnlisted == 1
UnlistedOpcodes ==
    ({35, 46} \cup ((MaxOpcode - NumUnlisted + 1)..MaxOpcode)) \ TableOpcodes

NoCall == 0 - 1

\* The two bank-select ports, 0x1CE and 0x1CF.
PORT_INDEX == 462
PORT_DATA == 463
Ports == {PORT_INDEX, PORT_DATA}

(***************************************************************************)
(* A DWORD (uint32) is the pair <<high word, low word>> of its 16-bit      *)
(* halves, so that every 32-bit value is a value of the model and a shift  *)
(* loses the bits it loses in C.                                           *)
(***************************************************************************)
WORD_MOD == 65536
Dword(hi, lo) == <<hi % WORD_MOD, lo % WORD_MOD>>
HiWord(d) == d[1]
LoWord(d) == d[2]
ZERO == Dword(0, 0)
ONE == Dword(0, 1)

\* (uint32)w of a 16-bit value w
ToUint32(w) == Dword(0, w)

\* Values the model draws the adapter's registers from.
\* (vendor 0x15AD = 5549, device 0x0405 = 1029)
VRAM_16M == Dword(256, 0)  \* 16,777,216
Adapters ==
    { [vendorId |-> 5549, deviceId |-> 1029,
       vramSize |-> VRAM_16M],
      [vendorId |-> 5549, deviceId |-> 0,
       vramSize |-> Dword(65535, 65535)],
      [vendorId |-> 0, deviceId |-> 0, vramSize |-> ZERO] }

\* Values the model draws the client registers from.
MINUS_ONE == Dword(65535, 65535)   \* EAX = -1: "running in a known VESA mode"
VESA_MODE_101 == Dword(0, 257)     \* 0x101, a VESA mode number
OEM_MODE_7F == Dword(0, 127)       \* 0x7F, a mode number that is no VESA mode
EBX_VM_HANDLE == Dword(49153, 4096)
EFLAGS_NC == Dword(0, 514)         \* 0x202: IF set, carry clear
EFLAGS_CY == Dword(0, 515)         \* 0x203: IF set, carry set

Snapshot(eax, ecx, edx, ef) ==
    [Client_EAX |-> eax, Client_EBX |-> EBX_VM_HANDLE, Client_ECX |-> ecx,
     Client_EDX |-> edx, Client_EFlags |-> ef]

Snapshots ==
    { Snapshot(m[1], m[2], m[3], ef) :
        m \in { <<MINUS_ONE, VESA_MODE_101, Dword(0, 2)>>,
                <<VESA_MODE_101, VESA_MODE_101, Dword(0, 5)>>,
                <<OEM_MODE_7F, OEM_MODE_7F, Dword(0, 2)>> },
        ef \in {EFLAGS_NC, EFLAGS_CY} }

VARIABLES
    trap,               \* [Ports -> BOOLEAN]: the VMM traps the port globally
    svga_init_success,  \* the adapter was initialized
    gSVGA,              \* the adapter's vendor and device id
    vramSize,           \* the adapter's SVGA_REG_VRAM_SIZE register
    state,              \* the client registers as the last handler left them
    handled,            \* what the last call reported
    entry,              \* the client registers the last call was made with
    lastOp,             \* the last function called, NoCall before the first
    prevOp,             \* the function called before it
    prevBank,           \* <<r, w>> if that function was SET_BANK, else <<>>
    trapBefore,         \* trap before the last call
    trapBefore2,        \* trap before the call before it
    lastTrapOp          \* the last call of a trapping handler, NoCall if none

vars == <<trap, svga_init_success, gSVGA, vramSize, state, handled, entry,
          lastOp, prevOp, prevBank, trapBefore, trapBefore2, lastTrapOp>>

----
\* The carry flag of the client registers: bit 0 of Client_EFlags.
Carry(st) == LoWord(st.Client_EFlags) % 2 = 1

\* VDD_CY: set the carry flag.
VDD_CY(st) ==
    [st EXCEPT !.Client_EFlags =
        IF LoWord(@) % 2 = 1 THEN @ ELSE Dword(HiWord(@), LoWord(@) + 1)]

\* VDD_NC: clear the carry flag.
VDD_NC(st) ==
    [st EXCEPT !.Client_EFlags = Dword(HiWord(@), LoWord(@) - (LoWord(@) % 2))]

----
(***************************************************************************)
(* The handlers of src/minivdd.c.  X_proc(st, tr) is what handler X        *)
(* leaves when called with the client registers st in trap state tr: the   *)
(* client registers (.st) and the trap state (.tr).                        *)
(***************************************************************************)
Ret(st, tr) == [st |-> st, tr |-> tr]

\* The build flag of "#ifdef SVGA".
SVGA == TRUE

\* C's a || b on integers: 1 if either operand is nonzero, else 0.
LogicalOr(a, b) == IF a # ZERO \/ b # ZERO THEN ONE ELSE ZERO

\* d << 16 of a uint32 d: the low word moves up, the high word is lost.
ShiftLeft16(d) == Dword(LoWord(d), 0)

\* SVGA_ReadReg(SVGA_REG_VRAM_SIZE)
SVGA_ReadReg_VRAM_SIZE == vramSize

\* Variant: returns without clearing the carry flag.
register_display_driver_proc_empty(st, tr) == Ret(st, tr)

register_display_driver_proc(st, tr) == Ret(VDD_NC(st), tr)

\* Variant: the failure branch leaves EAX as it was.
get_chip_id_proc_keeps_eax(st, tr) ==
    IF svga_init_success
    THEN Ret([st EXCEPT !.Client_EAX =
                  LogicalOr(ShiftLeft16(ToUint32(gSVGA.vendorId)),
                            ToUint32(gSVGA.deviceId))], tr)
    ELSE Ret(st, tr)

get_chip_id_proc(st, tr) ==
    IF ~SVGA THEN Ret(st, tr)
    ELSE IF svga_init_success
         THEN Ret([st EXCEPT !.Client_EAX =
                       LogicalOr(ShiftLeft16(ToUint32(gSVGA.vendorId)),
                                 ToUint32(gSVGA.deviceId))], tr)
         ELSE Ret([st EXCEPT !.Client_EAX = ZERO], tr)

\* A mode number of the VESA range 0x100..0x1FF.
IsVesaMode(m) == HiWord(m) = 0 /\ LoWord(m) \in 256..511

\* A mode number of the standard VGA range 0x00..0x13.
IsVgaMode(m) == HiWord(m) = 0 /\ LoWord(m) \in 0..19

\* The mode a CHECK_SCREEN_SWITCH_OK call indicates is a VESA or VGA mode:
\* EAX is -1, or ECX is such a mode number.
IsStandardMode(st) ==
    \/ st.Client_EAX = MINUS_ONE
    \/ IsVesaMode(st.Client_ECX)
    \/ IsVgaMode(st.Client_ECX)

\* Variant: answers by the class of the mode.
check_screen_switch_ok_proc_classifies(st, tr) ==
    Ret(IF IsStandardMode(st) THEN VDD_NC(st) ELSE VDD_CY(st), tr)

check_screen_switch_ok_proc(st, tr) == Ret(st, tr)

\* Variant: answers with a 64K bank at the standard aperture when the adapter
\* is initialized, and declines otherwise.
get_bank_size_proc_answers(st, tr) ==
    IF svga_init_success
    THEN Ret(VDD_CY([st EXCEPT !.Client_EDX = Dword(1, 0),
                               !.Client_EAX = ZERO]), tr)
    ELSE Ret(VDD_NC(st), tr)

get_bank_size_proc(st, tr) == Ret(st, tr)

get_current_bank_read_proc(st, tr) == Ret(st, tr)

get_current_bank_write_proc(st, tr) == Ret(st, tr)

\* Variant: the failure branch also clears EAX, as get_chip_id's does.
get_total_vram_size_proc_clears_eax(st, tr) ==
    IF svga_init_success
    THEN Ret(VDD_CY([st EXCEPT !.Client_ECX = SVGA_ReadReg_VRAM_SIZE]), tr)
    ELSE Ret(VDD_NC([st EXCEPT !.Client_ECX = ZERO, !.Client_EAX = ZERO]), tr)

\* Variant: the initialized branch does not set the carry flag.
get_total_vram_size_proc_no_carry(st, tr) ==
    IF svga_init_success
    THEN Ret([st EXCEPT !.Client_ECX = SVGA_ReadReg_VRAM_SIZE], tr)
    ELSE Ret(VDD_NC([st EXCEPT !.Client_ECX = ZERO]), tr)

get_total_vram_size_proc(st, tr) ==
    IF ~SVGA THEN Ret(st, tr)
    ELSE IF svga_init_success
         THEN Ret(VDD_CY([st EXCEPT !.Client_ECX = SVGA_ReadReg_VRAM_SIZE]), tr)
         ELSE Ret(VDD_NC([st EXCEPT !.Client_ECX = ZERO]), tr)

\* Variant: reports the call as handled.
set_bank_proc_handles(st, tr) == Ret(VDD_CY(st), tr)

set_bank_proc(st, tr) == Ret(st, tr)

\* Variant: answers by the class of the mode number in EAX.
set_hires_mode_proc_classifies(st, tr) ==
    Ret(IF IsVesaMode(st.Client_EAX) THEN VDD_NC(st) ELSE VDD_CY(st), tr)

set_hires_mode_proc(st, tr) == Ret(st, tr)

\* Variant: the service flips the port's trapping.
Enable_Global_Trapping_toggle(tr, port) == [tr EXCEPT ![port] = ~@]

\* The wrapper passes the port to the VMM service in EDX and restores EDX;
\* the service makes the VMM trap the port in every VM.
Enable_Global_Trapping(tr, port) == [tr EXCEPT ![port] = TRUE]

\* Variant: the service leaves the port trapped.
Disable_Global_Trapping_noop(tr, port) == tr

\* The same for the service after which the VMM traps the port in no VM.
Disable_Global_Trapping(tr, port) == [tr EXCEPT ![port] = FALSE]

\* Variant: readjusts the trapping after the VESA call.
vesa_call_post_processing_proc_retraps(st, tr) ==
    Ret(st, Enable_Global_Trapping(
                Enable_Global_Trapping(tr, PORT_INDEX), PORT_DATA))

vesa_call_post_processing_proc(st, tr) == Ret(st, tr)

\* Variant: services the VESA call and reports it handled.
vesa_support_proc_handles(st, tr) ==
    Ret(VDD_CY([st EXCEPT !.Client_EAX = Dword(HiWord(@), 79)]), tr)

vesa_support_proc(st, tr) == Ret(st, tr)

\* Variant: releases both ports, as the hook of the other direction does.
pre_hires_save_restore_proc_untraps(st, tr) ==
    Ret(st, Disable_Global_Trapping(
                Disable_Global_Trapping(tr, PORT_INDEX), PORT_DATA))

pre_hires_save_restore_proc(st, tr) == Ret(st, tr)

post_hires_save_restore_proc(st, tr) == Ret(st, tr)

\* Variant: only the index port is released.
pre_hires_to_vga_proc_index_only(st, tr) ==
    Ret(st, Disable_Global_Trapping(tr, PORT_INDEX))

pre_hires_to_vga_proc(st, tr) ==
    Ret(st, Disable_Global_Trapping(
                Disable_Global_Trapping(tr, PORT_INDEX), PORT_DATA))

\* Variant: only the index port is trapped again.
post_hires_to_vga_proc_index_only(st, tr) ==
    Ret(st, Enable_Global_Trapping(tr, PORT_INDEX))

post_hires_to_vga_proc(st, tr) ==
    Ret(st, Enable_Global_Trapping(
                Enable_Global_Trapping(tr, PORT_INDEX), PORT_DATA))

\* Variant: flips the trapping of both ports.
enable_traps_proc_flips(st, tr) == Ret(st, [p \in Ports |-> ~tr[p]])

enable_traps_proc(st, tr) ==
    Ret(st, Enable_Global_Trapping(
                Enable_Global_Trapping(tr, PORT_INDEX), PORT_DATA))

\* Variant: only the data port is released.
display_driver_disabling_proc_data_only(st, tr) ==
    Ret(st, Disable_Global_Trapping(tr, PORT_DATA))

\* Variant: leaves the trapping as it is.
display_driver_disabling_proc_noop(st, tr) == Ret(st, tr)

display_driver_disabling_proc(st, tr) ==
    Ret(st, Disable_Global_Trapping(
                Disable_Global_Trapping(tr, PORT_INDEX), PORT_DATA))

----
(***************************************************************************)
(* The call of a function by its number.  The table and the entry code     *)
(* that calls the handler are not in src/; they are as the specification   *)
(* describes them: a function with a handler runs it and reports the       *)
(* carry flag it leaves, a function without one changes nothing and        *)
(* reports "unhandled".                                                    *)
(***************************************************************************)
Handler(op, st, tr) ==
    CASE op = REGISTER_DISPLAY_DRIVER -> register_display_driver_proc(st, tr)
      [] op = GET_CHIP_ID -> get_chip_id_proc(st, tr)
      [] op = CHECK_SCREEN_SWITCH_OK -> check_screen_switch_ok_proc(st, tr)
      [] op = GET_BANK_SIZE -> get_bank_size_proc(st, tr)
      [] op = GET_CURRENT_BANK_READ -> get_current_bank_read_proc(st, tr)
      [] op = GET_CURRENT_BANK_WRITE -> get_current_bank_write_proc(st, tr)
      [] op = GET_TOTAL_VRAM_SIZE -> get_total_vram_size_proc(st, tr)
      [] op = PRE_HIRES_SAVE_RESTORE -> pre_hires_save_restore_proc(st, tr)
      [] op = POST_HIRES_SAVE_RESTORE -> post_hires_save_restore_proc(st, tr)
      [] op = SET_BANK -> set_bank_proc(st, tr)
      [] op = SET_HIRES_MODE -> set_hires_mode_proc(st, tr)
      [] op = VESA_CALL_POST_PROCESSING ->
             vesa_call_post_processing_proc(st, tr)
      [] op = VESA_SUPPORT -> vesa_support_proc(st, tr)
      [] op = PRE_HIRES_TO_VGA -> pre_hires_to_vga_proc(st, tr)
      [] op = POST_HIRES_TO_VGA -> post_hires_to_vga_proc(st, tr)
      [] op = ENABLE_TRAPS -> enable_traps_proc(st, tr)
      [] op = DISPLAY_DRIVER_DISABLING -> display_driver_disabling_proc(st, tr)
      [] OTHER -> Ret(st, tr)

\* The handlers that call a trapping service.
TrappingOps ==
    {PRE_HIRES_TO_VGA, POST_HIRES_TO_VGA, ENABLE_TRAPS,
     DISPLAY_DRIVER_DISABLING}

\* Variant: every opcode is taken to have a handler.
InTable_any(op) == TRUE

InTable(op) == op \in TableOpcodes

Dispatch(op, st) ==
    /\ entry' = st
    /\ lastOp' = op
    /\ prevOp' = lastOp
    /\ prevBank' = IF lastOp = SET_BANK
                   THEN <<entry.Client_EAX, entry.Client_EDX>>
                   ELSE <<>>
    /\ trapBefore' = trap
    /\ trapBefore2' = trapBefore
    /\ lastTrapOp' = IF op \in TrappingOps THEN op ELSE lastTrapOp
    /\ IF InTable(op)
       THEN /\ state' = Handler(op, st, trap).st
            /\ trap' = Handler(op, st, trap).tr
            /\ handled' = Carry(state')
       ELSE /\ state' = st
            /\ trap' = trap
            /\ handled' = FALSE
    /\ UNCHANGED <<svga_init_success, gSVGA, vramSize>>

----
\* The default before any call: both ports trapped, no call made.
Init ==
    /\ trap = [p \in Ports |-> TRUE]
    /\ svga_init_success \in BOOLEAN
    /\ \E a \in Adapters :
          /\ gSVGA = [vendorId |-> a.vendorId, deviceId |-> a.deviceId]
          /\ vramSize = a.vramSize
    /\ state = Snapshot(ZERO, ZERO, ZERO, EFLAGS_NC)
    /\ entry = state
    /\ handled = FALSE
    /\ lastOp = NoCall
    /\ prevOp = NoCall
    /\ prevBank = <<>>
    /\ trapBefore = trap
    /\ trapBefore2 = trap
    /\ lastTrapOp = NoCall

register_display_driver ==
    \E st \in Snapshots : Dispatch(REGISTER_DISPLAY_DRIVER, st)
get_chip_id ==
    \E st \in Snapshots : Dispatch(GET_CHIP_ID, st)
check_screen_switch_ok ==
    \E st \in Snapshots : Dispatch(CHECK_SCREEN_SWITCH_OK, st)
get_bank_size ==
    \E st \in Snapshots : Dispatch(GET_BANK_SIZE, st)
get_current_bank_read ==
    \E st \in Snapshots : Dispatch(GET_CURRENT_BANK_READ, st)
get_current_bank_write ==
    \E st \in Snapshots : Dispatch(GET_CURRENT_BANK_WRITE, st)
get_total_vram_size ==
    \E st \in Snapshots : Dispatch(GET_TOTAL_VRAM_SIZE, st)
pre_hires_save_restore ==
    \E st \in Snapshots : Dispatch(PRE_HIRES_SAVE_RESTORE, st)
post_hires_save_restore ==
    \E st \in Snapshots : Dispatch(POST_HIRES_SAVE_RESTORE, st)
set_bank ==
    \E st \in Snapshots : Dispatch(SET_BANK, st)
set_hires_mode ==
    \E st \in Snapshots : Dispatch(SET_HIRES_MODE, st)
vesa_call_post_processing ==
    \E st \in Snapshots : Dispatch(VESA_CALL_POST_PROCESSING, st)
vesa_support ==
    \E st \in Snapshots : Dispatch(VESA_SUPPORT, st)
pre_hires_to_vga ==
    \E st \in Snapshots : Dispatch(PRE_HIRES_TO_VGA, st)
post_hires_to_vga ==
    \E st \in Snapshots : Dispatch(POST_HIRES_TO_VGA, st)
enable_traps ==
    \E st \in Snapshots : Dispatch(ENABLE_TRAPS, st)
display_driver_disabling ==
    \E st \in Snapshots : Dispatch(DISPLAY_DRIVER_DISABLING, st)
UnlistedCall ==
    \E op \in UnlistedOpcodes : \E st \in Snapshots : Dispatch(op, st)

Next ==
    \/ register_display_driver
    \/ get_chip_id
    \/ check_screen_switch_ok
    \/ get_bank_size
    \/ get_current_bank_read
    \/ get_current_bank_write
    \/ get_total_vram_size
    \/ pre_hires_save_restore
    \/ post_hires_save_restore
    \/ set_bank
    \/ set_hires_mode
    \/ vesa_call_post_processing
    \/ vesa_support
    \/ pre_hires_to_vga
    \/ post_hires_to_vga
    \/ enable_traps
    \/ display_driver_disabling
    \/ UnlistedCall

Spec == Init /\ [][Next]_vars

TypeOK ==
    /\ trap \in [Ports -> BOOLEAN]
    /\ \A f \in DOMAIN state :
          state[f] \in (0..(WORD_MOD - 1)) \X (0..(WORD_MOD - 1))
    /\ handled \in BOOLEAN
    /\ lastOp \in {NoCall} \cup (0..MaxOpcode)

----
(***************************************************************************)
(* Properties.                                                             *)
(***************************************************************************)
Trapped(tr) == \A p \in Ports : tr[p]
Untrapped(tr) == \A p \in Ports : ~tr[p]

\* The last two calls were pre-hires-to-vga, then post-hires-to-vga.
PrePostPair == lastOp = POST_HIRES_TO_VGA /\ prevOp = PRE_HIRES_TO_VGA

\* C1 as stated: pre-hires-to-vga immediately followed by post-hires-to-vga
\* leaves the trap flag of each port equal to its value before the pair.
C1_RoundTripRestores ==
    PrePostPair => \A p \in Ports : trap[p] = trapBefore2[p]

\* C1 amended: pre-hires-to-vga immediately followed by post-hires-to-vga
\* leaves both ports trapped whatever the flags were before the pair, so the
\* flags equal their values before the pair exactly when both ports were
\* trapped before it.
C1_PairLeavesTrapped ==
    PrePostPair =>
        /\ Trapped(trap)
        /\ (trap = trapBefore2) <=> Trapped(trapBefore2)

\* The pair ran from a state with both ports untrapped.
C1_Witness == PrePostPair /\ Untrapped(trapBefore2)

\* C2 as stated: get-chip-id with the adapter initialized writes
\* (vendor << 16) | device to EAX, the vendor id in the upper half.
C2_ChipIdComposed ==
    (lastOp = GET_CHIP_ID /\ svga_init_success) =>
        state.Client_EAX = Dword(gSVGA.vendorId, gSVGA.deviceId)

\* C3: get-total-vram-size writes 0 to ECX and reports "unhandled" (carry
\* clear) when the adapter is not initialized, and writes the VRAM-size
\* register to ECX and reports "handled" (carry set) when it is.
C3_TotalVramSize ==
    lastOp = GET_TOTAL_VRAM_SIZE =>
        IF svga_init_success
        THEN state.Client_ECX = vramSize /\ Carry(state) /\ handled
        ELSE state.Client_ECX = ZERO /\ ~Carry(state) /\ ~handled

\* Initialized with 16,777,216 bytes, called with the carry flag clear and
\* another value in ECX.
C3_Witness ==
    /\ lastOp = GET_TOTAL_VRAM_SIZE
    /\ svga_init_success
    /\ vramSize = VRAM_16M
    /\ ~Carry(entry)
    /\ entry.Client_ECX # VRAM_16M
    /\ state.Client_ECX = VRAM_16M

\* C4: between calls the trap flag of port 0x1CE equals that of port 0x1CF.
C4_PortsPaired == trap[PORT_INDEX] = trap[PORT_DATA]

\* A handler has just switched the trapping of the ports off.
C4_Witness ==
    /\ lastOp \in {PRE_HIRES_TO_VGA, DISPLAY_DRIVER_DISABLING}
    /\ Trapped(trapBefore)
    /\ Untrapped(trap)

BankOps == {SET_BANK, GET_CURRENT_BANK_WRITE, GET_CURRENT_BANK_READ}

\* C5 as stated: set-bank(r, w) reports "handled"; get-current-write-bank
\* called next reports "handled" with EDX = w, and get-current-read-bank
\* called next reports "handled" with EDX = r.
C5_SetBankThenGet ==
    /\ lastOp = SET_BANK => handled
    /\ (lastOp = GET_CURRENT_BANK_WRITE /\ prevOp = SET_BANK) =>
           handled /\ state.Client_EDX = prevBank[2]
    /\ (lastOp = GET_CURRENT_BANK_READ /\ prevOp = SET_BANK) =>
           handled /\ state.Client_EDX = prevBank[1]

\* C5 amended: set-bank, get-current-write-bank and get-current-read-bank
\* leave every client register, the carry flag and EDX included, and both trap
\* flags as they were on entry: none of them reports "handled" by itself, and
\* no bank given to set-bank is returned.
C5_BankCallsChangeNothing ==
    lastOp \in BankOps => state = entry /\ trap = trapBefore

\* get-current-write-bank right after set-bank(r, w), called with the carry
\* flag clear and EDX other than w.
C5_Witness ==
    /\ lastOp = GET_CURRENT_BANK_WRITE
    /\ prevOp = SET_BANK
    /\ entry.Client_EDX # prevBank[2]
    /\ ~Carry(entry)

SaveRestoreOps == {PRE_HIRES_SAVE_RESTORE, POST_HIRES_SAVE_RESTORE}

\* C6 as stated: after pre-hires-save-restore both ports are untrapped, and
\* after post-hires-save-restore both are trapped.
C6_SaveRestoreHooksToggle ==
    /\ lastOp = PRE_HIRES_SAVE_RESTORE => Untrapped(trap)
    /\ lastOp = POST_HIRES_SAVE_RESTORE => Trapped(trap)

\* C6 amended: pre-hires-save-restore and post-hires-save-restore leave both
\* trap flags and every client register as they were on entry; only the hooks
\* of the switch-back-to-VGA direction change the trapping.
C6_SaveRestoreHooksChangeNothing ==
    lastOp \in SaveRestoreOps => trap = trapBefore /\ state = entry

\* post-hires-save-restore right after pre-hires-save-restore, the ports
\* untrapped before and after.
C6_Witness ==
    /\ lastOp = POST_HIRES_SAVE_RESTORE
    /\ prevOp = PRE_HIRES_SAVE_RESTORE
    /\ Untrapped(trap)

\* C7: after pre-hires-to-vga both ports are untrapped, and after
\* post-hires-to-vga both ports are trapped.
C7_ToVgaHooksToggle ==
    /\ lastOp = PRE_HIRES_TO_VGA => Untrapped(trap)
    /\ lastOp = POST_HIRES_TO_VGA => Trapped(trap)

\* The pre-hook released the trapped ports and the post-hook trapped them
\* again.
C7_Witness ==
    /\ PrePostPair
    /\ Trapped(trapBefore2)
    /\ Untrapped(trapBefore)
    /\ Trapped(trap)

\* C8 as stated: set-hires-mode reports "unhandled" for a VESA mode number
\* and "handled" for any other.
C8_SetHiresModeByClass ==
    lastOp = SET_HIRES_MODE =>
        IF IsVesaMode(entry.Client_EAX) THEN ~handled ELSE handled

\* C8 amended: set-hires-mode, for every mode number, VESA or not, leaves
\* every client register, the carry flag included, and both trap flags as
\* they were on entry; it never reports "handled" by itself.
C8_SetHiresModeChangesNothing ==
    lastOp = SET_HIRES_MODE => state = entry /\ trap = trapBefore

\* Called with a mode number that is no VESA mode and the carry flag clear.
C8_Witness ==
    /\ lastOp = SET_HIRES_MODE
    /\ ~IsVesaMode(entry.Client_EAX)
    /\ ~Carry(entry)
    /\ ~handled

C10_UnlistedIsNoOp ==
    (lastOp # NoCall /\ lastOp \notin TableOpcodes) =>
        ~handled /\ state = entry /\ trap = trapBefore

\* An opcode without a handler was called with the carry flag set and the
\* ports untrapped.
C10_Witness ==
    /\ lastOp \in UnlistedOpcodes
    /\ Carry(entry)
    /\ Untrapped(trap)

\* C11: get-chip-id with the adapter not initialized writes 0 to EAX,
\* whatever EAX held on entry and whatever ids the adapter holds.
C11_ChipIdZeroWhenUninitialized ==
    (lastOp = GET_CHIP_ID /\ ~svga_init_success) => state.Client_EAX = ZERO

\* Called uninitialized with EAX nonzero on entry and nonzero ids.
C11_Witness ==
    /\ lastOp = GET_CHIP_ID
    /\ ~svga_init_success
    /\ entry.Client_EAX # ZERO
    /\ gSVGA.vendorId # 0
    /\ state.Client_EAX = ZERO

\* The handlers that call neither trapping service.
NonTrappingOps ==
    { REGISTER_DISPLAY_DRIVER, GET_CHIP_ID, CHECK_SCREEN_SWITCH_OK,
      GET_BANK_SIZE, GET_CURRENT_BANK_READ, GET_CURRENT_BANK_WRITE,
      GET_TOTAL_VRAM_SIZE, SET_BANK, SET_HIRES_MODE, VESA_SUPPORT,
      VESA_CALL_POST_PROCESSING }

\* C12: both ports are trapped before the first call, and none of
\* register-display-driver, get-chip-id, check-screen-switch-ok,
\* get-bank-size, get-current-bank-read/write, get-total-vram-size, set-bank,
\* set-hires-mode, vesa-support and vesa-call-post-processing changes a trap
\* flag.
C12_OnlyTrapCallsChangeFlags ==
    /\ lastOp = NoCall => Trapped(trap)
    /\ lastOp \in NonTrappingOps => trap = trapBefore

\* vesa-call-post-processing ran while the ports were untrapped and left
\* them untrapped.
C12_Witness ==
    /\ lastOp = VESA_CALL_POST_PROCESSING
    /\ Untrapped(trapBefore)
    /\ Untrapped(trap)

\* The registers a and b agree outside the fields named.
SameExcept(a, b, fields) == \A f \in (DOMAIN a) \ fields : a[f] = b[f]

\* The flags a and b agree in every bit but the carry flag.
SameFlagsButCarry(a, b) ==
    /\ HiWord(a.Client_EFlags) = HiWord(b.Client_EFlags)
    /\ LoWord(a.Client_EFlags) \div 2 = LoWord(b.Client_EFlags) \div 2

\* C13: get-chip-id changes no register other than EAX, get-total-vram-size
\* none other than ECX and the carry flag, initialized or not; every other
\* handler changes at most the carry flag.
C13_UndocumentedRegistersKept ==
    /\ lastOp = GET_CHIP_ID => SameExcept(state, entry, {"Client_EAX"})
    /\ lastOp = GET_TOTAL_VRAM_SIZE =>
           /\ SameExcept(state, entry, {"Client_ECX", "Client_EFlags"})
           /\ SameFlagsButCarry(state, entry)
    /\ lastOp \in TableOpcodes \ {GET_CHIP_ID, GET_TOTAL_VRAM_SIZE} =>
           /\ SameExcept(state, entry, {"Client_EFlags"})
           /\ SameFlagsButCarry(state, entry)

\* get-total-vram-size, not initialized, changed ECX and the carry flag and
\* kept a nonzero EAX.
C13_Witness ==
    /\ lastOp = GET_TOTAL_VRAM_SIZE
    /\ ~svga_init_success
    /\ entry.Client_ECX # state.Client_ECX
    /\ Carry(entry) /\ ~Carry(state)
    /\ state.Client_EAX # ZERO

C16_UntrappedUntilPostHook ==
    /\ [](lastOp = PRE_HIRES_TO_VGA => Untrapped(trap))
    /\ [][(Untrapped(trap) /\ lastOp' \notin {POST_HIRES_TO_VGA, ENABLE_TRAPS})
            => Untrapped(trap')]_vars
    /\ [](lastOp = POST_HIRES_TO_VGA => Trapped(trap))

\* The pre-hook released the ports, another handler ran with the ports still
\* untrapped, and the post-hook then trapped them again.
C16_Witness ==
    /\ lastTrapOp = POST_HIRES_TO_VGA
    /\ lastOp = POST_HIRES_TO_VGA
    /\ prevOp \in NonTrappingOps
    /\ Untrapped(trapBefore2)
    /\ Untrapped(trapBefore)
    /\ Trapped(trap)

EnableOps == {ENABLE_TRAPS, POST_HIRES_TO_VGA}
DisableOps == {DISPLAY_DRIVER_DISABLING, PRE_HIRES_TO_VGA}

\* C17: an enabling call (enable-traps, post-hires-to-vga) right after an
\* enabling call leaves the trap state the first one left, and a disabling
\* call (display-driver-disabling, pre-hires-to-vga) right after a disabling
\* call likewise.
C17_TrapCallsIdempotent ==
    /\ (lastOp \in EnableOps /\ prevOp \in EnableOps) => trap = trapBefore
    /\ (lastOp \in DisableOps /\ prevOp \in DisableOps) => trap = trapBefore

\* enable-traps twice in a row from untrapped ports: the first call trapped
\* them, the second changed nothing.
C17_Witness ==
    /\ lastOp = ENABLE_TRAPS
    /\ prevOp = ENABLE_TRAPS
    /\ Untrapped(trapBefore2)
    /\ Trapped(trapBefore)
    /\ Trapped(trap)

\* C18: both ports are trapped exactly when no trapping handler has run yet
\* or the last one that ran was post-hires-to-vga or enable-traps, and both
\* are untrapped otherwise: the trapping follows the last call alone, not a
\* count of disables and enables.
C18_LastTrapCallDecides ==
    /\ Trapped(trap) <=>
           lastTrapOp \in {NoCall, POST_HIRES_TO_VGA, ENABLE_TRAPS}
    /\ Untrapped(trap) <=>
           lastTrapOp \in {PRE_HIRES_TO_VGA, DISPLAY_DRIVER_DISABLING}

\* The ports were already untrapped when pre-hires-to-vga ran, and the one
\* post-hires-to-vga after it trapped them.
C18_Witness ==
    /\ PrePostPair
    /\ lastTrapOp = POST_HIRES_TO_VGA
    /\ Untrapped(trapBefore2)
    /\ Trapped(trap)

\* C19: register-display-driver reports carry clear ("unhandled") and leaves
\* every client register, every flag but the carry flag, and both trap flags
\* unchanged.
C19_RegisterDisplayDriverPassThrough ==
    lastOp = REGISTER_DISPLAY_DRIVER =>
        /\ ~Carry(state)
        /\ ~handled
        /\ SameExcept(state, entry, {"Client_EFlags"})
        /\ SameFlagsButCarry(state, entry)
        /\ trap = trapBefore

\* Called with the carry flag set and the ports untrapped.
C19_Witness ==
    /\ lastOp = REGISTER_DISPLAY_DRIVER
    /\ Carry(entry)
    /\ ~Carry(state)
    /\ Untrapped(trap)

\* C20: in every reachable state and for every snapshot, enable-traps leaves
\* what post-hires-to-vga would leave and display-driver-disabling what
\* pre-hires-to-vga would leave, client registers and trap flags alike; and
\* each such call that ran left what its counterpart would have left.
C20_TrapCallsInterchangeable ==
    /\ \A st \in Snapshots :
           /\ enable_traps_proc(st, trap) = post_hires_to_vga_proc(st, trap)
           /\ display_driver_disabling_proc(st, trap) =
                  pre_hires_to_vga_proc(st, trap)
    /\ lastOp = ENABLE_TRAPS =>
           Ret(state, trap) = post_hires_to_vga_proc(entry, trapBefore)
    /\ lastOp = POST_HIRES_TO_VGA =>
           Ret(state, trap) = enable_traps_proc(entry, trapBefore)
    /\ lastOp = DISPLAY_DRIVER_DISABLING =>
           Ret(state, trap) = pre_hires_to_vga_proc(entry, trapBefore)
    /\ lastOp = PRE_HIRES_TO_VGA =>
           Ret(state, trap) = display_driver_disabling_proc(entry, trapBefore)

\* display-driver-disabling released trapped ports, and enable-traps then
\* trapped them again.
C20_Witness ==
    /\ lastOp = ENABLE_TRAPS
    /\ prevOp = DISPLAY_DRIVER_DISABLING
    /\ Trapped(trapBefore2)
    /\ Untrapped(trapBefore)
    /\ Trapped(trap)

====
